---- MODULE Spec2Model ----
(***************************************************************************)
(* Model of the runtime telemetry aggregator EnhancedPerformanceMonitor    *)
(* (performanceMonitor.ts, src/unnamed/part_001).                          *)
(*                                                                         *)
(* State: the fields of the collector (metrics, memoryHistory,             *)
(* memoryBaseline, sessionId), the host environment it reads (build mode,  *)
(* presence of performance.memory, the clock Date.now()), whether the      *)
(* setInterval timer was installed, the array last handed to a caller,     *)
(* the console output and result of the most recent handler, the JSON      *)
(* document of the most recent export, whether the owner has let go of     *)
(* the collector.                                                          *)
(*                                                                         *)
(* Every stored sample carries an `id`: the JavaScript object identity of  *)
(* the metric object created by one logRender call.                        *)
(***************************************************************************)
EXTENDS Integers, Sequences, FiniteSets, TLC

VARIABLES
    metrics,          \* this.metrics
    memoryHistory,    \* this.memoryHistory
    memoryBaseline,   \* this.memoryBaseline (Undefined or a number)
    sessionId,        \* this.sessionId
    mode,             \* import.meta.env.MODE
    hasMemory,        \* host exposes performance.memory
    timerOn,          \* the setInterval callback of startMemoryMonitoring is installed
    now,              \* Date.now()
    ticks,            \* number of times the interval callback has run
    nextId,           \* identity of the next metric object to be created
    returned,         \* array most recently returned by getMetrics/getComponentMetrics
    returnedIsLive,   \* TRUE iff `returned` is the very array object this.metrics
    insights,         \* result of the most recent getInsights()
    console,          \* console.warn messages emitted by the most recent handler
    lastOp,           \* name of the most recent handler
    prev,             \* this.metrics as it was when the most recent handler started
    exported,         \* JSON document most recently returned by exportMetrics()
    disposed,         \* the owner has let go of the collector
    currentIndex,     \* useKeyboardNavigation: useState(0)
    itemsRef,         \* useKeyboardNavigation: itemsRef.current
    focused           \* element that last received focus() (Undefined or an element)

\* The state of one useKeyboardNavigation() hook instance.
hook == <<currentIndex, itemsRef, focused>>

vars == <<metrics, memoryHistory, memoryBaseline, sessionId, mode, hasMemory, timerOn,
          now, ticks, nextId, returned, returnedIsLive, insights, console, lastOp, prev,
          exported, disposed, hook>>

\* An optional value (number | undefined) is the empty set or a singleton.
Undefined == {}
Some(x) == {x}
ValueOf(o) == CHOOSE x \in o : TRUE

\* ---------------------------------------------------------------- constants
\* maxMetrics is 500 in the source (part_001:29).  The model is parametric in
\* it and is explored with a reduced capacity; every other quantity derived
\* from it (floor(maxMetrics * 0.7)) is computed from it as the code does.
maxMetrics == 4
slowRenderThreshold == 16
\* optimizeMemory keeps 200 metrics in the source (part_001:255); reduced with
\* maxMetrics, keeping optimizeKeep < maxMetrics.
optimizeKeep == 2
recentWindowMs == 300000
\* The sampler keeps 50 readings (part_001:64-65) and optimizeMemory 20
\* (part_001:258); reduced, keeping trendWindow <= optimizeHistoryKeep <
\* memoryHistoryMax.
memoryHistoryMax == 12
\* getInsights reports the top 5 components (part_001:182); reduced with
\* maxMetrics, keeping hotspotLimit < maxMetrics.
hotspotLimit == 2
optimizeHistoryKeep == 11

\* ---------------------------------------------------------------- helpers
Last(s) == s[Len(s)]
Front(s) == SubSeq(s, 1, Len(s) - 1)
Max(a, b) == IF a >= b THEN a ELSE b
Min(a, b) == IF a <= b THEN a ELSE b

\* Array.prototype.slice(start) with one argument: a negative start counts
\* from the end, and -0 is 0.
Slice(s, start) ==
    LET from == IF start < 0 THEN Max(Len(s) + start, 0) ELSE Min(start, Len(s))
    IN  SubSeq(s, from + 1, Len(s))

\* Array.prototype.slice(start, end).
Slice2(s, start, end) ==
    LET from == IF start < 0 THEN Max(Len(s) + start, 0) ELSE Min(start, Len(s))
        to   == IF end < 0 THEN Max(Len(s) + end, 0) ELSE Min(end, Len(s))
    IN  SubSeq(s, from + 1, to)

\* Math.floor(this.maxMetrics * 0.7)
keepRecent == (maxMetrics * 7) \div 10

\* One step of a stable sort with comparator (a, b) => a.timestamp - b.timestamp:
\* m goes after every element whose timestamp is not greater.
RECURSIVE InsertByTimestamp(_, _)
InsertByTimestamp(sorted, m) ==
    IF sorted = <<>> THEN <<m>>
    ELSE IF Last(sorted).timestamp <= m.timestamp THEN Append(sorted, m)
    ELSE Append(InsertByTimestamp(Front(sorted), m), Last(sorted))

RECURSIVE SortByTimestamp(_)
SortByTimestamp(s) ==
    IF s = <<>> THEN <<>>
    ELSE InsertByTimestamp(SortByTimestamp(Front(s)), Last(s))

IsSlow(m) == m.isSlowRender

\* ---------------------------------------------------------------- logRender
\* Mutant: the comparison is >= instead of >.
isSlowRenderInclusive(renderTime) == renderTime >= slowRenderThreshold

\* const isSlowRender = renderTime > this.slowRenderThreshold
isSlowRenderOf(renderTime) == renderTime > slowRenderThreshold

\* getCurrentMemoryUsage(): the heap size when the host exposes it.
getCurrentMemoryUsage(heap) == IF hasMemory THEN Some(heap) ELSE Undefined

\* Mutant: the call stack is captured for every sample.
NewMetricAlwaysStack(componentName, renderTime, propsHash, heap, stack) ==
    [ id            |-> nextId,
      renderTime    |-> renderTime,
      componentName |-> componentName,
      propsHash     |-> propsHash,
      timestamp     |-> now,
      sessionId     |-> sessionId,
      memoryUsage   |-> getCurrentMemoryUsage(heap),
      callStack     |-> Some(stack),
      isSlowRender  |-> isSlowRenderOf(renderTime) ]

\* The metric object built by logRender.  `stack` is what getCallStack()
\* returns on this host ("" when Error().stack is unavailable).
NewMetric(componentName, renderTime, propsHash, heap, stack) ==
    [ id            |-> nextId,
      renderTime    |-> renderTime,
      componentName |-> componentName,
      propsHash     |-> propsHash,
      timestamp     |-> now,
      sessionId     |-> sessionId,
      memoryUsage   |-> getCurrentMemoryUsage(heap),
      callStack     |-> IF isSlowRenderOf(renderTime) THEN Some(stack) ELSE Undefined,
      isSlowRender  |-> isSlowRenderOf(renderTime) ]

\* Mutant: the final slice(-maxMetrics) is forgotten.
CleanupNoTruncate(ms) ==
    LET slowRenders   == SelectSeq(ms, IsSlow)
        recentMetrics == Slice(ms, -keepRecent)
    IN  SortByTimestamp(slowRenders \o recentMetrics)

\* Mutant: the oldest maxMetrics entries are kept, slice(0, maxMetrics).
CleanupKeepOldest(ms) ==
    LET slowRenders   == SelectSeq(ms, IsSlow)
        recentMetrics == Slice(ms, -keepRecent)
    IN  Slice2(SortByTimestamp(slowRenders \o recentMetrics), 0, maxMetrics)

\* Mutant: the filter keeps the fast renders instead of the slow ones.
CleanupKeepFast(ms) ==
    LET slowRenders   == SelectSeq(ms, LAMBDA m : ~m.isSlowRender)
        recentMetrics == Slice(ms, -keepRecent)
    IN  Slice(SortByTimestamp(slowRenders \o recentMetrics), -maxMetrics)

\* "Maintain buffer size with intelligent cleanup"
Cleanup(ms) ==
    LET slowRenders   == SelectSeq(ms, IsSlow)
        recentMetrics == Slice(ms, -keepRecent)
    IN  Slice(SortByTimestamp(slowRenders \o recentMetrics), -maxMetrics)

AfterPush(ms) == IF Len(ms) > maxMetrics THEN Cleanup(ms) ELSE ms

\* Development-only console output of logRender, computed on the store as it
\* is after the cleanup.
RECURSIVE SumRenderTime(_)
SumRenderTime(s) == IF s = <<>> THEN 0 ELSE SumRenderTime(Front(s)) + Last(s).renderTime

LogRenderConsole(ms, componentName, renderTime) ==
    LET same   == Slice(SelectSeq(ms, LAMBDA m : m.componentName = componentName), -5)
        n      == Len(same)
        total  == SumRenderTime(same)
        \* avgRecent > threshold  and  renderTime > avgRecent * 1.5, over n > 0
        regress == /\ n >= 3
                   /\ total > slowRenderThreshold * n
                   /\ 2 * renderTime * n > 3 * total
    IN  IF mode # "development" THEN {}
        ELSE (IF isSlowRenderOf(renderTime) THEN {"slow render"} ELSE {})
             \cup (IF regress THEN {"regression"} ELSE {})

\* Mutant: logRender also files its heap reading in the sampler's history.
logRenderSamplesMemory(componentName, renderTime, propsHash, heap, stack) ==
    LET metric == NewMetric(componentName, renderTime, propsHash, heap, stack)
        pushed == Append(metrics, metric)
        evict  == Len(pushed) > maxMetrics
    IN  /\ metrics' = AfterPush(pushed)
        /\ memoryHistory' = Append(memoryHistory, [timestamp |-> now, usage |-> heap])
        /\ nextId' = nextId + 1
        /\ console' = LogRenderConsole(metrics', componentName, renderTime)
        /\ lastOp' = IF evict THEN "logRender/cleanup" ELSE "logRender"
        /\ prev' = metrics
        /\ returned' = IF returnedIsLive /\ ~evict THEN pushed ELSE returned
        /\ returnedIsLive' = (returnedIsLive /\ ~evict)
        /\ UNCHANGED <<memoryBaseline, sessionId, mode, hasMemory,
                       timerOn, now, ticks, insights, exported, disposed, hook>>

logRender(componentName, renderTime, propsHash, heap, stack) ==
    LET metric == NewMetric(componentName, renderTime, propsHash, heap, stack)
        pushed == Append(metrics, metric)
        evict  == Len(pushed) > maxMetrics
    IN  /\ metrics' = AfterPush(pushed)
        /\ nextId' = nextId + 1
        /\ console' = LogRenderConsole(metrics', componentName, renderTime)
        /\ lastOp' = IF evict THEN "logRender/cleanup" ELSE "logRender"
        /\ prev' = metrics
        \* push() mutates the array in place; the cleanup assigns a new array
        /\ returned' = IF returnedIsLive /\ ~evict THEN pushed ELSE returned
        /\ returnedIsLive' = (returnedIsLive /\ ~evict)
        /\ UNCHANGED <<memoryHistory, memoryBaseline, sessionId, mode, hasMemory,
                       timerOn, now, ticks, insights, exported, disposed, hook>>

\* ---------------------------------------------------------------- memory sampler
\* !this.memoryBaseline : undefined and 0 are both falsy
Falsy(o) == o = Undefined \/ o = Some(0)

BaselineAfter(baseline, usage) == IF Falsy(baseline) THEN Some(usage) ELSE baseline

\* Mutant: the history keeps its first memoryHistoryMax readings.
HistoryAfterKeepOldest(history, reading) ==
    Slice2(Append(history, reading), 0, memoryHistoryMax)

HistoryAfter(history, reading) ==
    LET pushed == Append(history, reading)
    IN  IF Len(pushed) > memoryHistoryMax THEN Slice(pushed, -memoryHistoryMax)
        ELSE pushed

\* usage > this.memoryBaseline * 2
\* Mutant: the spike test is inclusive.
IsSpikeInclusive(usage, baseline) == usage >= ValueOf(baseline) * 2

IsSpike(usage, baseline) == usage > ValueOf(baseline) * 2

\* The setInterval callback of startMemoryMonitoring; `usage` is
\* performance.memory.usedJSHeapSize at the time it runs.
MemoryTick(usage) ==
    /\ timerOn
    /\ memoryBaseline' = BaselineAfter(memoryBaseline, usage)
    /\ memoryHistory' = HistoryAfter(memoryHistory, [timestamp |-> now, usage |-> usage])
    /\ console' = IF IsSpike(usage, memoryBaseline') THEN {"memory spike"} ELSE {}
    /\ ticks' = ticks + 1
    /\ lastOp' = "memoryTick"
    /\ prev' = metrics
    /\ UNCHANGED <<metrics, sessionId, mode, hasMemory, timerOn, now, nextId, returned,
                   returnedIsLive, insights, exported, disposed, hook>>

\* ---------------------------------------------------------------- letting go
\* The owner lets go of the collector (its module is replaced, its reference
\* dropped).  The class has no method for this and the handle setInterval
\* returned was not kept, so no field changes and the callback stays installed.
dispose ==
    /\ ~disposed
    /\ disposed' = TRUE
    /\ UNCHANGED <<metrics, memoryHistory, memoryBaseline, sessionId, mode, hasMemory,
                   timerOn, now, ticks, nextId, returned, returnedIsLive, insights,
                   console, lastOp, prev, exported, hook>>

\* ---------------------------------------------------------------- clock
\* Date.now() advances between handlers (never within one: the handlers are
\* synchronous and run in well under a millisecond or read the clock once).
AdvanceClock(d) ==
    /\ now' = now + d
    /\ UNCHANGED <<metrics, memoryHistory, memoryBaseline, sessionId, mode, hasMemory,
                   timerOn, ticks, nextId, returned, returnedIsLive, insights, console,
                   lastOp, prev, exported, disposed, hook>>

\* ---------------------------------------------------------------- clear
\* Mutant: clear() starts a new session.
clearNewSession ==
    /\ metrics' = <<>>
    /\ memoryHistory' = <<>>
    /\ memoryBaseline' = Undefined
    /\ sessionId' = "perf_2_b"
    /\ console' = {}
    /\ lastOp' = "clear"
    /\ prev' = metrics
    /\ returnedIsLive' = FALSE
    /\ UNCHANGED <<mode, hasMemory, timerOn, now, ticks, nextId, returned, insights,
                   exported, disposed, hook>>

\* Mutant: clear() forgets to reset the baseline.
clearKeepsBaseline ==
    /\ metrics' = <<>>
    /\ memoryHistory' = <<>>
    /\ console' = {}
    /\ lastOp' = "clear"
    /\ prev' = metrics
    /\ returnedIsLive' = FALSE
    /\ UNCHANGED <<memoryBaseline, sessionId, mode, hasMemory, timerOn, now, ticks,
                   nextId, returned, insights, exported, disposed, hook>>

clear ==
    /\ metrics' = <<>>
    /\ memoryHistory' = <<>>
    /\ memoryBaseline' = Undefined
    /\ console' = {}
    /\ lastOp' = "clear"
    /\ prev' = metrics
    /\ returnedIsLive' = FALSE
    /\ UNCHANGED <<sessionId, mode, hasMemory, timerOn, now, ticks, nextId, returned,
                   insights, exported, disposed, hook>>

\* ---------------------------------------------------------------- optimizeMemory
\* Mutant: a sample exactly recentWindowMs old still counts as recent.
IsCriticalInclusive(m) == m.isSlowRender \/ now - m.timestamp <= recentWindowMs

IsCritical(m) == m.isSlowRender \/ now - m.timestamp < recentWindowMs

\* Mutant: the history is trimmed to fewer readings than the trend analysis reads.
optimizeMemoryShortHistory ==
    /\ metrics' = Slice(SelectSeq(metrics, IsCritical), -optimizeKeep)
    /\ memoryHistory' = Slice(memoryHistory, -9)
    /\ console' = {}
    /\ lastOp' = "optimizeMemory"
    /\ prev' = metrics
    /\ returnedIsLive' = FALSE
    /\ UNCHANGED <<memoryBaseline, sessionId, mode, hasMemory, timerOn, now, ticks,
                   nextId, returned, insights, exported, disposed, hook>>

optimizeMemory ==
    /\ metrics' = Slice(SelectSeq(metrics, IsCritical), -optimizeKeep)
    /\ memoryHistory' = Slice(memoryHistory, -optimizeHistoryKeep)
    /\ console' = {}
    /\ lastOp' = "optimizeMemory"
    /\ prev' = metrics
    /\ returnedIsLive' = FALSE
    /\ UNCHANGED <<memoryBaseline, sessionId, mode, hasMemory, timerOn, now, ticks,
                   nextId, returned, insights, exported, disposed, hook>>

\* ---------------------------------------------------------------- queries
\* Mutant: getMetrics() returns this.metrics itself.
GetMetricsLive == [array |-> metrics, live |-> TRUE]

\* getMetrics(): [...this.metrics], a new array with the same elements.
GetMetricsResult == [array |-> metrics, live |-> FALSE]

\* getComponentMetrics(name): filter() always builds a new array.
GetComponentMetricsResult(componentName) ==
    [array |-> SelectSeq(metrics, LAMBDA m : m.componentName = componentName),
     live  |-> FALSE]

Handed(result) ==
    /\ returned' = result.array
    /\ returnedIsLive' = result.live
    /\ console' = {}
    /\ prev' = metrics
    /\ UNCHANGED <<metrics, memoryHistory, memoryBaseline, sessionId, mode, hasMemory,
                   timerOn, now, ticks, nextId, insights, exported, disposed, hook>>

getMetrics == Handed(GetMetricsResult) /\ lastOp' = "getMetrics"

getComponentMetrics(componentName) ==
    Handed(GetComponentMetricsResult(componentName)) /\ lastOp' = "getComponentMetrics"

\* A metric-shaped object made by the caller, not by logRender.
ForeignMetric ==
    [ id |-> 0, renderTime |-> 99, componentName |-> "Foreign", propsHash |-> "{}",
      timestamp |-> 0, sessionId |-> "caller", memoryUsage |-> Undefined,
      callStack |-> Undefined, isSlowRender |-> TRUE ]

Reverse(s) == [i \in 1..Len(s) |-> s[Len(s) + 1 - i]]

\* The caller changes the array it was handed: push, pop or reverse.  The
\* store changes with it exactly when that array is this.metrics itself.
Mutated(arr, kind) ==
    CASE kind = "push"    -> Append(arr, ForeignMetric)
      [] kind = "pop"     -> Front(arr)
      [] kind = "reverse" -> Reverse(arr)

CallerMutates(kind) ==
    /\ lastOp \in {"getMetrics", "getComponentMetrics"}
    /\ kind = "pop" => returned # <<>>
    /\ returned' = Mutated(returned, kind)
    /\ metrics' = IF returnedIsLive THEN returned' ELSE metrics
    /\ console' = {}
    /\ lastOp' = "callerMutates"
    /\ prev' = metrics
    /\ UNCHANGED <<memoryHistory, memoryBaseline, sessionId, mode, hasMemory, timerOn,
                   now, ticks, nextId, returnedIsLive, insights, exported, disposed, hook>>

\* ---------------------------------------------------------------- getInsights
\* A JavaScript number that is the quotient of two integers, in lowest terms
\* with a positive denominator.  For the integers of this model two quotients
\* are the same double exactly when they are the same fraction.
RECURSIVE Gcd(_, _)
Gcd(a, b) == IF b = 0 THEN a ELSE Gcd(b, a % b)
Abs(a) == IF a < 0 THEN -a ELSE a
Quot(n, d) ==
    LET g == Gcd(Abs(n), d)
    IN  [num |-> n \div g, den |-> d \div g]
Zero == [num |-> 0, den |-> 1]
\* a > b , a - b > 0
Greater(a, b) == a.num * b.den > b.num * a.den
\* a > k for an integer k
GreaterInt(a, k) == a.num > k * a.den

\* Mutant: Math.floor of the mean.
AverageRenderTimeFloored(ms) ==
    IF Len(ms) > 0 THEN Quot(SumRenderTime(ms) \div Len(ms), 1) ELSE Zero

\* averageRenderTime
AverageRenderTime(ms) ==
    IF Len(ms) > 0 THEN Quot(SumRenderTime(ms), Len(ms)) ELSE Zero

\* Own property order of the componentStats object: canonical array-index
\* names first, in ascending numeric order, then the other names in order of
\* creation.  IndexValue gives the number an index-like name denotes.
IndexValue(name) ==
    CASE name = "0" -> 0 [] name = "1" -> 1 [] name = "2" -> 2 [] name = "7" -> 7
      [] OTHER -> -1

\* Property names every object literal inherits from Object.prototype.  For
\* such a name acc[name] is the inherited value, which is truthy, so
\* if (!acc[name]) creates no entry and the += lands on the inherited object.
InheritedNames ==
    {"constructor", "toString", "toLocaleString", "valueOf", "hasOwnProperty",
     "isPrototypeOf", "propertyIsEnumerable", "__proto__", "__defineGetter__",
     "__defineSetter__", "__lookupGetter__", "__lookupSetter__"}

RECURSIVE FirstOccurrences(_)
FirstOccurrences(ms) ==
    IF ms = <<>> THEN <<>>
    ELSE LET rest == FirstOccurrences(Front(ms))
             name == Last(ms).componentName
         IN  IF name \in InheritedNames \/ \E i \in 1..Len(rest) : rest[i] = name
             THEN rest
             ELSE Append(rest, name)

RECURSIVE InsertByIndex(_, _)
InsertByIndex(sorted, name) ==
    IF sorted = <<>> THEN <<name>>
    ELSE IF IndexValue(Last(sorted)) <= IndexValue(name) THEN Append(sorted, name)
    ELSE Append(InsertByIndex(Front(sorted), name), Last(sorted))

RECURSIVE SortByIndex(_)
SortByIndex(names) ==
    IF names = <<>> THEN <<>>
    ELSE InsertByIndex(SortByIndex(Front(names)), Last(names))

ObjectKeys(ms) ==
    LET created == FirstOccurrences(ms)
    IN  SortByIndex(SelectSeq(created, LAMBDA n : IndexValue(n) >= 0))
        \o SelectSeq(created, LAMBDA n : IndexValue(n) < 0)

\* Object.entries(componentStats).map(...)
HotspotOf(ms, name) ==
    LET own == SelectSeq(ms, LAMBDA m : m.componentName = name)
    IN  [component   |-> name,
         averageTime |-> Quot(SumRenderTime(own), Len(own)),
         count       |-> Len(own)]

HotspotEntries(ms) ==
    LET keys == ObjectKeys(ms)
    IN  [i \in 1..Len(keys) |-> HotspotOf(ms, keys[i])]

\* One step of a stable sort with comparator (a, b) => b.averageTime - a.averageTime.
RECURSIVE InsertByAverage(_, _)
InsertByAverage(sorted, h) ==
    IF sorted = <<>> THEN <<h>>
    ELSE IF ~Greater(h.averageTime, Last(sorted).averageTime) THEN Append(sorted, h)
    ELSE Append(InsertByAverage(Front(sorted), h), Last(sorted))

RECURSIVE SortByAverage(_)
SortByAverage(hs) ==
    IF hs = <<>> THEN <<>>
    ELSE InsertByAverage(SortByAverage(Front(hs)), Last(hs))

\* Mutant: the hotspots are cut before they are sorted.
ComponentHotspotsCutFirst(ms) == SortByAverage(Slice2(HotspotEntries(ms), 0, hotspotLimit))

ComponentHotspots(ms) == Slice2(SortByAverage(HotspotEntries(ms)), 0, hotspotLimit)

\* ---- IEEE-754 binary64, the arithmetic of JavaScript numbers ----
\* A natural number of any size is a little-endian sequence of limbs in
\* 0..Limb-1 without leading zero limbs; <<>> is 0.
Limb == 2^12

RECURSIVE BigOfInt(_)
BigOfInt(n) == IF n = 0 THEN <<>> ELSE <<n % Limb>> \o BigOfInt(n \div Limb)

RECURSIVE BigNorm(_)
BigNorm(a) == IF a = <<>> THEN <<>> ELSE IF Last(a) = 0 THEN BigNorm(Front(a)) ELSE a

RECURSIVE BigAddC(_, _, _)
BigAddC(a, b, carry) ==
    IF a = <<>> /\ b = <<>> THEN BigOfInt(carry)
    ELSE LET x == IF a = <<>> THEN 0 ELSE Head(a)
             y == IF b = <<>> THEN 0 ELSE Head(b)
             t == x + y + carry
         IN  <<t % Limb>> \o BigAddC(IF a = <<>> THEN <<>> ELSE Tail(a),
                                     IF b = <<>> THEN <<>> ELSE Tail(b), t \div Limb)
BigAdd(a, b) == BigAddC(a, b, 0)

\* a * k for 0 <= k < 2^18
RECURSIVE BigMulSmallC(_, _, _)
BigMulSmallC(a, k, carry) ==
    IF a = <<>> THEN BigOfInt(carry)
    ELSE LET t == Head(a) * k + carry
         IN  <<t % Limb>> \o BigMulSmallC(Tail(a), k, t \div Limb)
BigMulSmall(a, k) == BigNorm(BigMulSmallC(a, k, 0))

\* a * Limb^n
BigShiftLimbs(a, n) == IF a = <<>> THEN <<>> ELSE [i \in 1..n |-> 0] \o a

RECURSIVE BigMul(_, _)
BigMul(a, b) ==
    IF b = <<>> THEN <<>>
    ELSE BigAdd(BigMulSmall(a, Head(b)), BigShiftLimbs(BigMul(a, Tail(b)), 1))

\* quotient and remainder of a by d, 0 < d < 2^18
RECURSIVE BigDivSmallR(_, _)
BigDivSmallR(a, d) ==
    IF a = <<>> THEN [q |-> <<>>, r |-> 0]
    ELSE LET hi  == BigDivSmallR(Tail(a), d)
             cur == hi.r * Limb + Head(a)
         IN  [q |-> <<cur \div d>> \o hi.q, r |-> cur % d]
BigDivSmall(a, d) ==
    LET qr == BigDivSmallR(a, d) IN [q |-> BigNorm(qr.q), r |-> qr.r]

\* -1, 0, 1 as a < b, a = b, a > b
RECURSIVE BigCmp(_, _)
BigCmp(a, b) ==
    IF Len(a) # Len(b) THEN (IF Len(a) < Len(b) THEN -1 ELSE 1)
    ELSE IF a = <<>> THEN 0
    ELSE IF Last(a) # Last(b) THEN (IF Last(a) < Last(b) THEN -1 ELSE 1)
    ELSE BigCmp(Front(a), Front(b))

RECURSIVE IntBitLen(_)
IntBitLen(n) == IF n = 0 THEN 0 ELSE 1 + IntBitLen(n \div 2)
BigBitLen(a) == IF a = <<>> THEN 0 ELSE 12 * (Len(a) - 1) + IntBitLen(Last(a))

BigPow2(n) == BigShiftLimbs(<<2^(n % 12)>>, n \div 12)
BigShl(a, n) == BigShiftLimbs(BigMulSmall(a, 2^(n % 12)), n \div 12)
\* floor(a / 2^n)
BigShr(a, n) ==
    IF n \div 12 >= Len(a) THEN <<>>
    ELSE BigDivSmall(SubSeq(a, n \div 12 + 1, Len(a)), 2^(n % 12)).q
\* a mod 2^n
BigLowBits(a, n) ==
    LET whole == Min(n \div 12, Len(a))
        part  == IF n \div 12 < Len(a) THEN <<a[n \div 12 + 1] % 2^(n % 12)>> ELSE <<>>
    IN  BigNorm(SubSeq(a, 1, whole) \o part)
BigIsOdd(a) == a # <<>> /\ Head(a) % 2 = 1

\* A finite non-negative double is 0 or m * 2^e with 2^52 <= m < 2^53.
DoubleZero == [m |-> <<>>, e |-> 0]

\* The double nearest to p * 2^e0, ties to even.
RoundToDouble(p, e0) ==
    LET n == BigBitLen(p)
    IN  IF n = 0 THEN DoubleZero
        ELSE IF n <= 53 THEN [m |-> BigShl(p, 53 - n), e |-> e0 - (53 - n)]
        ELSE LET sh   == n - 53
                 q    == BigShr(p, sh)
                 c    == BigCmp(BigLowBits(p, sh), BigPow2(sh - 1))
                 up   == c > 0 \/ (c = 0 /\ BigIsOdd(q))
                 m1   == IF up THEN BigAdd(q, <<1>>) ELSE q
             IN  IF BigBitLen(m1) = 54 THEN [m |-> BigShr(m1, 1), e |-> e0 + sh + 1]
                 ELSE [m |-> m1, e |-> e0 + sh]

\* n / d for integers 0 <= n < 2^31, 0 < d < 2^18: the quotient is taken with
\* 64 fraction bits and a sticky bit, then rounded once.
DoubleDiv(n, d) ==
    LET qr == BigDivSmall(BigShl(BigOfInt(n), 64), d)
        p  == BigAdd(BigMulSmall(qr.q, 2), IF qr.r # 0 THEN <<1>> ELSE <<>>)
    IN  RoundToDouble(p, -65)

\* x * y
DoubleMul(x, y) == RoundToDouble(BigMul(x.m, y.m), x.e + y.e)

\* x < y
DoubleLess(x, y) ==
    IF y.m = <<>> THEN FALSE
    ELSE IF x.m = <<>> THEN TRUE
    ELSE IF x.e # y.e THEN x.e < y.e
    ELSE BigCmp(x.m, y.m) < 0

\* The literals 1.1 and 0.9: the doubles nearest to 11/10 and 9/10.
Literal1_1 == DoubleDiv(11, 10)
Literal0_9 == DoubleDiv(9, 10)

RECURSIVE SumUsage(_)
SumUsage(h) == IF h = <<>> THEN 0 ELSE SumUsage(Front(h)) + Last(h).usage

\* recentAvg > olderAvg * 1.1 / recentAvg < olderAvg * 0.9
TrendOf(recentSum, recentLen, olderSum, olderLen) ==
    LET recentAvg == DoubleDiv(recentSum, recentLen)
        olderAvg  == DoubleDiv(olderSum, olderLen)
    IN  IF DoubleLess(DoubleMul(olderAvg, Literal1_1), recentAvg) THEN "increasing"
        ELSE IF DoubleLess(recentAvg, DoubleMul(olderAvg, Literal0_9)) THEN "decreasing"
        ELSE "stable"

\* Memory trend analysis
MemoryTrend(history) ==
    IF Len(history) >= 10
    THEN LET recent == Slice(history, -5)
             older  == Slice2(history, -10, -5)
         IN  TrendOf(SumUsage(recent), Len(recent), SumUsage(older), Len(older))
    ELSE "stable"

\* Mutant: the rules form an else-if chain, so a rule that fires suppresses the later ones.
RecommendationsChained(slowRenders, totalRenders, averageRenderTime, componentHotspots, memoryTrend) ==
    IF 10 * Len(slowRenders) > totalRenders
    THEN <<"Consider optimizing components with React.memo() or useMemo()">>
    ELSE IF Len(componentHotspots) > 0 /\ GreaterInt(componentHotspots[1].averageTime, 20)
    THEN <<"Focus optimization on " \o componentHotspots[1].component \o " component">>
    ELSE IF memoryTrend = "increasing"
    THEN <<"Memory usage is increasing - check for memory leaks">>
    ELSE IF GreaterInt(averageRenderTime, 10)
    THEN <<"Overall render performance could be improved">>
    ELSE <<>>

Recommendations(slowRenders, totalRenders, averageRenderTime, componentHotspots, memoryTrend) ==
    (IF 10 * Len(slowRenders) > totalRenders
     THEN <<"Consider optimizing components with React.memo() or useMemo()">>
     ELSE <<>>)
    \o (IF Len(componentHotspots) > 0 /\ GreaterInt(componentHotspots[1].averageTime, 20)
        THEN <<"Focus optimization on " \o componentHotspots[1].component \o " component">>
        ELSE <<>>)
    \o (IF memoryTrend = "increasing"
        THEN <<"Memory usage is increasing - check for memory leaks">>
        ELSE <<>>)
    \o (IF GreaterInt(averageRenderTime, 10)
        THEN <<"Overall render performance could be improved">>
        ELSE <<>>)

Insights(ms, history) ==
    LET slowRenders       == SelectSeq(ms, IsSlow)
        totalRenders      == Len(ms)
        averageRenderTime == AverageRenderTime(ms)
        componentHotspots == ComponentHotspots(ms)
        memoryTrend       == MemoryTrend(history)
    IN  [slowRenders       |-> slowRenders,
         averageRenderTime |-> averageRenderTime,
         totalRenders      |-> totalRenders,
         memoryTrend       |-> memoryTrend,
         componentHotspots |-> componentHotspots,
         recommendations   |-> Recommendations(slowRenders, totalRenders,
                                   averageRenderTime, componentHotspots, memoryTrend)]

\* Mutant: getInsights() keeps its first result and returns it from then on.
getInsightsCached ==
    /\ insights' = IF insights # Undefined THEN insights
                   ELSE Some(Insights(metrics, memoryHistory))
    /\ console' = {}
    /\ lastOp' = "getInsights"
    /\ prev' = metrics
    /\ UNCHANGED <<metrics, memoryHistory, memoryBaseline, sessionId, mode, hasMemory,
                   timerOn, now, ticks, nextId, returned, returnedIsLive, exported,
                   disposed, hook>>

getInsights ==
    /\ insights' = Some(Insights(metrics, memoryHistory))
    /\ console' = {}
    /\ lastOp' = "getInsights"
    /\ prev' = metrics
    /\ UNCHANGED <<metrics, memoryHistory, memoryBaseline, sessionId, mode, hasMemory,
                   timerOn, now, ticks, nextId, returned, returnedIsLive, exported,
                   disposed, hook>>

\* ---------------------------------------------------------------- exportMetrics
\* JSON.stringify renders an object as the members whose value is not
\* undefined, an array as its elements, a finite number, a string and a
\* boolean as themselves.  The text is modelled by the JSON document it
\* denotes, the structure JSON.parse returns for it: an object is a function
\* from the member names present to their values.  Object identity is not part
\* of a document, so the `id` of a metric is not in it.
MetricKeys ==
    {"renderTime", "componentName", "propsHash", "timestamp", "sessionId",
     "memoryUsage", "callStack", "isSlowRender"}

\* The value of property `key` of a metric object, Undefined when it is undefined.
Prop(m, key) ==
    CASE key = "renderTime"    -> Some(m.renderTime)
      [] key = "componentName" -> Some(m.componentName)
      [] key = "propsHash"     -> Some(m.propsHash)
      [] key = "timestamp"     -> Some(m.timestamp)
      [] key = "sessionId"     -> Some(m.sessionId)
      [] key = "memoryUsage"   -> m.memoryUsage
      [] key = "callStack"     -> m.callStack
      [] key = "isSlowRender"  -> Some(m.isSlowRender)

\* Mutant: members whose value is undefined are written as null.
StringifyMetricWithNulls(m) ==
    [key \in MetricKeys |-> IF Prop(m, key) = Undefined THEN "null" ELSE ValueOf(Prop(m, key))]

StringifyMetric(m) ==
    [key \in {k \in MetricKeys : Prop(m, k) # Undefined} |-> ValueOf(Prop(m, key))]

StringifyMetrics(ms) == [i \in 1..Len(ms) |-> StringifyMetric(ms[i])]

StringifyInsights(r) ==
    [slowRenders       |-> StringifyMetrics(r.slowRenders),
     averageRenderTime |-> r.averageRenderTime,
     totalRenders      |-> r.totalRenders,
     memoryTrend       |-> r.memoryTrend,
     componentHotspots |-> r.componentHotspots,
     recommendations   |-> r.recommendations]

\* new Date().toISOString(): the clock reading in ISO-8601 notation.
ToISOString(ms) == [iso8601 |-> ms]

exportMetrics ==
    /\ exported' = Some([metrics       |-> StringifyMetrics(metrics),
                         insights      |-> StringifyInsights(Insights(metrics, memoryHistory)),
                         memoryHistory |-> memoryHistory,
                         sessionId     |-> sessionId,
                         exportTime    |-> ToISOString(now)])
    /\ console' = {}
    /\ lastOp' = "exportMetrics"
    /\ prev' = metrics
    /\ UNCHANGED <<metrics, memoryHistory, memoryBaseline, sessionId, mode, hasMemory,
                   timerOn, now, ticks, nextId, returned, returnedIsLive, insights,
                   disposed, hook>>

\* ---------------------------------------------------------------- construction
Modes == {"development", "production"}
SessionIds == {"perf_1_a"}

\* Mutant: the constructor starts the sampler in every build mode.
InitAnyMode ==
    /\ metrics = <<>>
    /\ memoryHistory = <<>>
    /\ memoryBaseline = Undefined
    /\ sessionId \in SessionIds
    /\ mode \in Modes
    /\ hasMemory \in BOOLEAN
    /\ timerOn = hasMemory
    /\ now = 0
    /\ ticks = 0
    /\ nextId = 1
    /\ returned = <<>>
    /\ returnedIsLive = FALSE
    /\ insights = Undefined
    /\ console = {}
    /\ lastOp = "constructor"
    /\ prev = <<>>
    /\ exported = Undefined
    /\ disposed = FALSE
    /\ currentIndex = 0
    /\ itemsRef = <<>>
    /\ focused = Undefined

\* Mutant: the constructor starts the sampler without looking for performance.memory.
InitNoMemoryCheck ==
    /\ metrics = <<>>
    /\ memoryHistory = <<>>
    /\ memoryBaseline = Undefined
    /\ sessionId \in SessionIds
    /\ mode \in Modes
    /\ hasMemory \in BOOLEAN
    /\ timerOn = (mode = "development")
    /\ now = 0
    /\ ticks = 0
    /\ nextId = 1
    /\ returned = <<>>
    /\ returnedIsLive = FALSE
    /\ insights = Undefined
    /\ console = {}
    /\ lastOp = "constructor"
    /\ prev = <<>>
    /\ exported = Undefined
    /\ disposed = FALSE
    /\ currentIndex = 0
    /\ itemsRef = <<>>
    /\ focused = Undefined

Init ==
    /\ metrics = <<>>
    /\ memoryHistory = <<>>
    /\ memoryBaseline = Undefined
    /\ sessionId \in SessionIds
    /\ mode \in Modes
    /\ hasMemory \in BOOLEAN
    /\ timerOn = (mode = "development" /\ hasMemory)
    /\ now = 0
    /\ ticks = 0
    /\ nextId = 1
    /\ returned = <<>>
    /\ returnedIsLive = FALSE
    /\ insights = Undefined
    /\ console = {}
    /\ lastOp = "constructor"
    /\ prev = <<>>
    /\ exported = Undefined
    /\ disposed = FALSE
    /\ currentIndex = 0
    /\ itemsRef = <<>>
    /\ focused = Undefined

\* Construction in a development build on a host with performance.memory.
InitDevelopment == Init /\ mode = "development" /\ hasMemory

\* ---------------------------------------------------------------- Spec
MaxRecords == 6
MaxNow == 1
MaxTicks == 1
Components == {"A"}
RenderTimes == {16, 17}
PropsHashes == {"{}"}
HeapSizes == {1}
Stacks == {"at A"}

Record ==
    /\ nextId <= MaxRecords
    /\ \E c \in Components, t \in RenderTimes, h \in PropsHashes,
          u \in HeapSizes, st \in Stacks : logRender(c, t, h, u, st)

Tick == now < MaxNow /\ AdvanceClock(1)

Sample == ticks < MaxTicks /\ \E u \in HeapSizes : MemoryTick(u)

Next == Record \/ Tick \/ Sample \/ clear \/ optimizeMemory

Spec == Init /\ [][Next]_vars

\* ---------------------------------------------------------------- SpecValues
\* The store under durations of every kind: negative, zero, exactly the
\* threshold, just above it, very large.
MaxRecordsV == 5
RenderTimesV == {-1, 0, 16, 17, 1000000}

RecordV ==
    /\ nextId <= MaxRecordsV
    /\ \E c \in Components, t \in RenderTimesV, h \in PropsHashes,
          u \in HeapSizes, st \in Stacks : logRender(c, t, h, u, st)

NextValues == RecordV \/ clear \/ optimizeMemory

SpecValues == Init /\ [][NextValues]_vars

\* ---------------------------------------------------------------- SpecQuery
\* Callers that query the store and then change the array they were handed.
MaxRecordsQ == 3
ComponentsQ == {"A", "B"}
MutationKinds == {"push", "pop", "reverse"}
MaxReturned == 3

RecordQ ==
    /\ nextId <= MaxRecordsQ
    /\ \E c \in ComponentsQ, t \in RenderTimes, h \in PropsHashes,
          u \in HeapSizes, st \in Stacks : logRender(c, t, h, u, st)

QueryAll == getMetrics

QueryComponent == \E c \in ComponentsQ : getComponentMetrics(c)

Mutate == \E k \in MutationKinds : Len(returned) <= MaxReturned /\ CallerMutates(k)

NextQuery == RecordQ \/ QueryAll \/ QueryComponent \/ Mutate \/ clear

SpecQuery == Init /\ [][NextQuery]_vars

\* ---------------------------------------------------------------- SpecInsights
\* getInsights over stores of several components and durations.
MaxRecordsI == 4
ComponentsI == {"A", "B", "C"}
RenderTimesI == {8, 24}

RecordI ==
    /\ nextId <= MaxRecordsI
    /\ \E c \in ComponentsI, t \in RenderTimesI, h \in PropsHashes,
          u \in HeapSizes, st \in Stacks : logRender(c, t, h, u, st)

NextInsights == RecordI \/ getInsights \/ clear

SpecInsights == InitDevelopment /\ [][NextInsights]_vars

\* ---------------------------------------------------------------- SpecTrend
\* The sampler on a host whose heap readings make the recent mean fall on,
\* inside and outside the 10% band around the older mean.
MaxTicksT == 11
HeapSizesT == {35, 42}

SampleT == ticks < MaxTicksT /\ \E u \in HeapSizesT : MemoryTick(u)

NextTrend == SampleT \/ getInsights

SpecTrend == InitDevelopment /\ [][NextTrend]_vars

\* ---------------------------------------------------------------- SpecNames
\* getInsights over component names of both kinds of property key: names that
\* are canonical array indices ("7") and names that are not ("A", "B").
MaxRecordsN == 3
ComponentsN == {"A", "B", "7"}

RecordN ==
    /\ nextId <= MaxRecordsN
    /\ \E c \in ComponentsN, t \in RenderTimesI, h \in PropsHashes,
          u \in HeapSizes, st \in Stacks : logRender(c, t, h, u, st)

NextNames == RecordN \/ getInsights \/ clear

SpecNames == InitDevelopment /\ [][NextNames]_vars

\* ---------------------------------------------------------------- SpecAdvice
\* getInsights over stores that make each recommendation rule hold and fail,
\* in a collector whose sampler has not yet run or has already taken
\* trendWindow readings on an idle page: a flat heap, or a heap that grew by
\* a fifth half way through.
trendWindow == 10
MaxRecordsA == 3
ComponentsA == {"A", "B"}
RenderTimesA == {0, 12, 18, 24}
FlatReadings == [i \in 1..trendWindow |-> 35]
RisingReadings == [i \in 1..trendWindow |-> IF 2 * i <= trendWindow THEN 35 ELSE 42]

\* The state after the constructor and Len(usages) sampler callbacks that read `usages`.
InitSampled ==
    \E usages \in {<<>>, FlatReadings, RisingReadings} :
        /\ metrics = <<>>
        /\ memoryHistory = [i \in 1..Len(usages) |-> [timestamp |-> 0, usage |-> usages[i]]]
        /\ memoryBaseline = IF usages = <<>> THEN Undefined ELSE Some(usages[1])
        /\ sessionId \in SessionIds
        /\ mode = "development"
        /\ hasMemory = TRUE
        /\ timerOn = TRUE
        /\ now = 0
        /\ ticks = Len(usages)
        /\ nextId = 1
        /\ returned = <<>>
        /\ returnedIsLive = FALSE
        /\ insights = Undefined
        /\ console = {}
        /\ lastOp = IF usages = <<>> THEN "constructor" ELSE "memoryTick"
        /\ prev = <<>>
        /\ exported = Undefined
        /\ disposed = FALSE
        /\ currentIndex = 0
        /\ itemsRef = <<>>
        /\ focused = Undefined

RecordA ==
    /\ nextId <= MaxRecordsA
    /\ \E c \in ComponentsA, t \in RenderTimesA, h \in PropsHashes,
          u \in HeapSizes, st \in Stacks : logRender(c, t, h, u, st)

NextAdvice == RecordA \/ getInsights \/ clear

SpecAdvice == InitSampled /\ [][NextAdvice]_vars

\* ---------------------------------------------------------------- SpecBaseline
\* The sampler on a host whose readings include 0, the baseline and more than
\* twice the baseline, interleaved with every other operation.
MaxTicksB == 3
MaxRecordsB == 1
HeapSizesB == {0, 1, 2, 3}

SampleB == ticks < MaxTicksB /\ \E u \in HeapSizesB : MemoryTick(u)

RecordB ==
    /\ nextId <= MaxRecordsB
    /\ \E c \in Components, t \in RenderTimes, h \in PropsHashes,
          u \in HeapSizes, st \in Stacks : logRender(c, t, h, u, st)

NextBaseline == SampleB \/ RecordB \/ clear \/ optimizeMemory \/ getInsights

SpecBaseline == Init /\ [][NextBaseline]_vars

\* ---------------------------------------------------------------- SpecWindow
\* The sampler running past the capacity of the history, on a heap that grows
\* by one unit between readings so that every reading is told from the others.
MaxTicksW == 14
MaxRecordsW == 1

SampleW == ticks < MaxTicksW /\ \E u \in {ticks + 1} : MemoryTick(u)

RecordW ==
    /\ nextId <= MaxRecordsW
    /\ \E c \in Components, t \in RenderTimes, h \in PropsHashes,
          u \in HeapSizes, st \in Stacks : logRender(c, t, h, u, st)

NextWindow == SampleW \/ RecordW \/ clear \/ optimizeMemory

SpecWindow == InitDevelopment /\ [][NextWindow]_vars

\* ---------------------------------------------------------------- SpecSampler
\* The sampler of SpecTrend after construction in either build mode, with and
\* without performance.memory.
SpecSampler == Init /\ [][NextTrend]_vars

\* ---------------------------------------------------------------- SpecOptimize
\* optimizeMemory() on stores whose samples are just younger than, exactly as
\* old as and older than recentWindowMs, and on histories longer than
\* optimizeHistoryKeep.
MaxRecordsO == 3
MaxTicksO == 12
MaxNowO == 300000
ClockStepsO == {150000, 299999}

RecordO ==
    /\ nextId <= MaxRecordsO
    /\ \E c \in Components, t \in RenderTimes, h \in PropsHashes,
          u \in HeapSizes, st \in Stacks : logRender(c, t, h, u, st)

TickO == \E d \in ClockStepsO : now + d <= MaxNowO /\ AdvanceClock(d)

SampleO == ticks < MaxTicksO /\ \E u \in {ticks + 1} : MemoryTick(u)

NextOptimize == RecordO \/ TickO \/ SampleO \/ optimizeMemory

SpecOptimize == Init /\ [][NextOptimize]_vars

\* ---------------------------------------------------------------- SpecExport
\* exportMetrics() over stores of fast and slow samples, with and without a
\* call stack text and a memory reading.
MaxRecordsE == 3
MaxTicksE == 1
StacksE == {"", "at A"}

RecordE ==
    /\ nextId <= MaxRecordsE
    /\ \E c \in ComponentsQ, t \in RenderTimes, h \in PropsHashes,
          u \in HeapSizes, st \in StacksE : logRender(c, t, h, u, st)

SampleE == ticks < MaxTicksE /\ \E u \in HeapSizes : MemoryTick(u)

NextExport == RecordE \/ SampleE \/ exportMetrics \/ clear

SpecExport == Init /\ [][NextExport]_vars

\* ---------------------------------------------------------------- SpecSession
\* Every operation of the collector, interleaved.
MaxRecordsS == 3

RecordS ==
    /\ nextId <= MaxRecordsS
    /\ \E c \in Components, t \in RenderTimes, h \in PropsHashes,
          u \in HeapSizes, st \in Stacks : logRender(c, t, h, u, st)

NextSession == RecordS \/ SampleE \/ exportMetrics \/ clear \/ optimizeMemory

SpecSession == Init /\ [][NextSession]_vars

\* ---------------------------------------------------------------- SpecTeardown
\* An owner that uses the collector and then lets go of it, after which it
\* calls nothing; the timer is the host's.
OwnerCalls == ~disposed /\ (RecordB \/ clear)

NextTeardown == SampleB \/ OwnerCalls \/ dispose

SpecTeardown == Init /\ [][NextTeardown]_vars

\* ---------------------------------------------------------------- SpecStacks
\* The store under durations of every kind and call stacks that are empty
\* (Error().stack unavailable) or not.
MaxRecordsK == 5
RenderTimesK == {0, 16, 17}

RecordK ==
    /\ nextId <= MaxRecordsK
    /\ \E c \in Components, t \in RenderTimesK, h \in PropsHashes,
          u \in HeapSizes, st \in StacksE : logRender(c, t, h, u, st)

NextStacks == RecordK \/ clear \/ optimizeMemory

SpecStacks == Init /\ [][NextStacks]_vars

\* ---------------------------------------------------------------- SpecPrototype
\* getInsights over component names one of which is also the name of a
\* property of Object.prototype.
MaxRecordsP == 3
ComponentsP == {"A", "constructor"}

RecordP ==
    /\ nextId <= MaxRecordsP
    /\ \E c \in ComponentsP, t \in RenderTimesI, h \in PropsHashes,
          u \in HeapSizes, st \in Stacks : logRender(c, t, h, u, st)

NextPrototype == RecordP \/ getInsights \/ clear

SpecPrototype == InitDevelopment /\ [][NextPrototype]_vars

\* ---------------------------------------------------------------- SpecCompaction
\* From a collector whose sampler has already taken trendWindow readings, the
\* sampler fills the history past its capacity while optimizeMemory() trims it
\* and getInsights() reports the trend.
MaxTicksC == 14

InitWarm == InitSampled /\ ticks = trendWindow

SampleC == ticks < MaxTicksC /\ \E u \in HeapSizesT : MemoryTick(u)

NextCompaction == SampleC \/ optimizeMemory \/ getInsights

SpecCompaction == InitWarm /\ [][NextCompaction]_vars

\* ---------------------------------------------------------------- useKeyboardNavigation
\* The hook of part_002.  Each call of handleKeyDown is followed by the render
\* React schedules for its state update, so the currentIndex the callback
\* closes over is the current state.
collector == <<metrics, memoryHistory, memoryBaseline, sessionId, mode, hasMemory, timerOn,
               now, ticks, nextId, returned, returnedIsLive, insights, console, prev,
               exported, disposed>>

\* JavaScript's %, for a non-negative dividend and a positive divisor.
Rem(a, b) == a % b

\* items[i]?.focus(): the element at a 0-based index, if there is one.
ItemAt(items, i) == IF i >= 0 /\ i < Len(items) THEN Some(items[i + 1]) ELSE Undefined

registerItem(element) ==
    /\ itemsRef' = IF \E i \in 1..Len(itemsRef) : itemsRef[i] = element
                   THEN itemsRef
                   ELSE Append(itemsRef, element)
    /\ lastOp' = "registerItem"
    /\ UNCHANGED <<collector, currentIndex, focused>>

unregisterItem(element) ==
    /\ itemsRef' = SelectSeq(itemsRef, LAMBDA item : item # element)
    /\ lastOp' = "unregisterItem"
    /\ UNCHANGED <<collector, currentIndex, focused>>

handleKeyDown(key) ==
    LET items == itemsRef
    IN  /\ lastOp' = "handleKeyDown"
        /\ UNCHANGED <<collector, itemsRef>>
        /\ IF Len(items) = 0
           THEN UNCHANGED <<currentIndex, focused>>
           ELSE CASE key \in {"ArrowDown", "ArrowRight"} ->
                       /\ currentIndex' = Rem(currentIndex + 1, Len(items))
                       /\ focused' = ItemAt(items, Rem(currentIndex + 1, Len(items)))
                  [] key \in {"ArrowUp", "ArrowLeft"} ->
                       /\ currentIndex' = Rem(currentIndex - 1 + Len(items), Len(items))
                       /\ focused' = ItemAt(items, Rem(currentIndex - 1 + Len(items), Len(items)))
                  [] key = "Home" ->
                       /\ currentIndex' = 0
                       /\ focused' = ItemAt(items, 0)
                  [] key = "End" ->
                       /\ currentIndex' = Len(items) - 1
                       /\ focused' = ItemAt(items, Len(items) - 1)
                  [] OTHER -> UNCHANGED <<currentIndex, focused>>

Elements == {"a", "b", "c"}
Keys == {"ArrowDown", "ArrowRight", "ArrowUp", "ArrowLeft", "Home", "End", "Enter"}

Register == \E element \in Elements : registerItem(element)

Unregister == \E element \in Elements : unregisterItem(element)

KeyDown == \E key \in Keys : handleKeyDown(key)

NextKeyboard == Register \/ Unregister \/ KeyDown

SpecKeyboard == InitDevelopment /\ [][NextKeyboard]_vars

\* ================================================================ claims
Ids(s) == {s[i].id : i \in 1..Len(s)}
SlowCount(s) == Len(SelectSeq(s, IsSlow))
Recorded == lastOp \in {"logRender", "logRender/cleanup"}
Evicted == lastOp = "logRender/cleanup"

\* C1: after every handler (logRender, sampler tick, clear, optimizeMemory)
\* the store holds at most maxMetrics samples.
C1_Capacity == Len(metrics) <= maxMetrics

\* C1 witness: a logRender that ran the cleanup left the store exactly full.
C1_Witness == Evicted /\ Len(metrics) = maxMetrics /\ Len(prev) = maxMetrics

\* C2 (as claimed): every recorded sample occurs at most once in the store.
C2_NoDuplicates ==
    \A i, j \in 1..Len(metrics) : i # j => metrics[i].id # metrics[j].id

\* C3 (amended): in a cleanup that starts with more than 0.3 x maxMetrics slow
\* samples, if a slow sample is removed then no non-slow sample that was
\* recorded before it remains in the store.
C3_RetentionPriority ==
    (Evicted /\ 10 * (SlowCount(prev) + SlowCount(<<Last(metrics)>>)) > 3 * maxMetrics)
    => \A i \in 1..Len(prev) :
          (prev[i].isSlowRender /\ prev[i].id \notin Ids(metrics))
          => \A j \in 1..Len(metrics) :
                ~metrics[j].isSlowRender => metrics[j].id > prev[i].id

\* C3 witness: such a cleanup removed a slow sample and kept a non-slow one.
C3_Witness ==
    /\ Evicted
    /\ 10 * (SlowCount(prev) + SlowCount(<<Last(metrics)>>)) > 3 * maxMetrics
    /\ \E i \in 1..Len(prev) : prev[i].isSlowRender /\ prev[i].id \notin Ids(metrics)
    /\ \E j \in 1..Len(metrics) : ~metrics[j].isSlowRender

\* C3 (as claimed): ... then no non-slow sample with an equal or older
\* timestamp remains in the store.
C3_AsClaimed ==
    (Evicted /\ 10 * (SlowCount(prev) + SlowCount(<<Last(metrics)>>)) > 3 * maxMetrics)
    => \A i \in 1..Len(prev) :
          (prev[i].isSlowRender /\ prev[i].id \notin Ids(metrics))
          => \A j \in 1..Len(metrics) :
                ~metrics[j].isSlowRender => metrics[j].timestamp > prev[i].timestamp

\* C4 (as claimed): the store (what getMetrics() copies) is in non-decreasing
\* timestamp order and in the order in which the samples were recorded.
C4_OrderPreserved ==
    \A i, j \in 1..Len(metrics) :
        i < j => /\ metrics[i].timestamp <= metrics[j].timestamp
                 /\ metrics[i].id <= metrics[j].id

\* C5: every stored sample is flagged slow exactly when its duration exceeds
\* 16, and a handler never changes a sample that stays in the store.
C5_FlagConsistent ==
    /\ \A i \in 1..Len(metrics) :
          metrics[i].isSlowRender = (metrics[i].renderTime > 16)
    /\ \A i \in 1..Len(metrics), j \in 1..Len(prev) :
          metrics[i].id = prev[j].id => metrics[i] = prev[j]

\* C5 witness: after a cleanup the store holds a sample of exactly 16 ms and
\* one of at most 0 ms, neither flagged, next to a flagged one.
C5_Witness ==
    /\ Evicted
    /\ \E i, j, k \in 1..Len(metrics) :
          /\ metrics[i].renderTime = 16 /\ ~metrics[i].isSlowRender
          /\ metrics[j].renderTime <= 0 /\ ~metrics[j].isSlowRender
          /\ metrics[k].isSlowRender

\* C6: logRender is accepted in every state for every duration, and right
\* after it the new sample is the last element of the store, also after a
\* cleanup.
C6_RecordAccepted ==
    /\ \A t \in {-1, 0, 16, 17, 1000000} :
          LET post == AfterPush(Append(metrics, NewMetric("A", t, "{}", 1, "")))
          IN  /\ Len(post) >= 1
              /\ Last(post).id = nextId
              /\ Last(post).renderTime = t
    /\ Recorded => /\ metrics # <<>>
                   /\ Last(metrics).id = nextId - 1

\* C6 witness: a logRender that ran the cleanup.
C6_Witness == Evicted /\ Last(metrics).id = nextId - 1 /\ SlowCount(prev) = maxMetrics

\* C7: a caller that pushes to, pops from or reverses the array returned by
\* getMetrics() or getComponentMetrics() leaves the store, the memory state
\* and what getMetrics() and getInsights() would return unchanged.
C7_DefensiveCopy ==
    [][lastOp' = "callerMutates"
        => /\ metrics' = metrics
           /\ memoryHistory' = memoryHistory
           /\ GetMetricsResult' = GetMetricsResult
           /\ Insights(metrics', memoryHistory') = Insights(metrics, memoryHistory)]_vars

\* C7 witness: the caller changed the array it got from a non-empty store.
C7_Witness ==
    /\ lastOp = "callerMutates"
    /\ metrics # <<>>
    /\ returned # metrics
    /\ \E i \in 1..Len(returned) : returned[i].id = 0

\* C8: getInsights() reports averageRenderTime = (sum of the stored
\* durations) / (store size), 0 for the empty store, and totalRenders = the
\* store size.
C8_Average ==
    lastOp = "getInsights"
    => LET r == ValueOf(insights)
       IN  /\ r.totalRenders = Len(metrics)
           /\ r.averageRenderTime.den > 0
           /\ r.averageRenderTime.num * Len(metrics)
                = SumRenderTime(metrics) * r.averageRenderTime.den
           /\ metrics = <<>> => r.averageRenderTime.num = 0

\* C8 witness: an average that is not a whole number, and the empty store.
C8_Witness ==
    /\ lastOp = "getInsights"
    /\ Len(metrics) = 3
    /\ ValueOf(insights).averageRenderTime.den = 3

\* C10: hotspots holds one entry per distinct component of the store, at most
\* hotspotLimit of them, each with that component's mean duration and count,
\* in non-increasing order of mean; no component left out has a greater mean
\* than one that is included.
NamesIn(ms) == {ms[i].componentName : i \in 1..Len(ms)}
CountOf(ms, name) == Cardinality({i \in 1..Len(ms) : ms[i].componentName = name})
RECURSIVE TotalOf(_, _)
TotalOf(ms, name) ==
    IF ms = <<>> THEN 0
    ELSE TotalOf(Front(ms), name)
         + (IF Last(ms).componentName = name THEN Last(ms).renderTime ELSE 0)

C10_Hotspots ==
    lastOp = "getInsights"
    => LET hs    == ValueOf(insights).componentHotspots
           names == NamesIn(metrics)
           shown == {hs[i].component : i \in 1..Len(hs)}
       IN  /\ Len(hs) = Min(Cardinality(names), hotspotLimit)
           /\ shown \subseteq names
           /\ Cardinality(shown) = Len(hs)
           /\ \A i \in 1..Len(hs) :
                 /\ hs[i].count = CountOf(metrics, hs[i].component)
                 /\ hs[i].averageTime.den > 0
                 /\ hs[i].averageTime.num * hs[i].count
                      = TotalOf(metrics, hs[i].component) * hs[i].averageTime.den
           /\ \A i, j \in 1..Len(hs) :
                 i < j => hs[i].averageTime.num * hs[j].averageTime.den
                           >= hs[j].averageTime.num * hs[i].averageTime.den
           /\ \A n \in names \ shown : \A i \in 1..Len(hs) :
                 TotalOf(metrics, n) * hs[i].averageTime.den
                   <= hs[i].averageTime.num * CountOf(metrics, n)

\* C10 witness: more components than hotspotLimit, with different means.
C10_Witness ==
    /\ lastOp = "getInsights"
    /\ Cardinality(NamesIn(metrics)) > hotspotLimit
    /\ LET hs == ValueOf(insights).componentHotspots
       IN  /\ Len(hs) = hotspotLimit
           /\ hs[1].averageTime # hs[Len(hs)].averageTime
           /\ hs[1].count > 1

\* C9 (as claimed): memoryTrend is "stable" below 10 readings; from 10
\* readings on it is "increasing" iff mean(last 5) > 1.1 x mean(5 before),
\* "decreasing" iff mean(last 5) < 0.9 x mean(5 before), else "stable", the
\* means and products being those of the real numbers.
ExactTrend(history) ==
    IF Len(history) < 10 THEN "stable"
    ELSE LET recentSum == SumUsage(SubSeq(history, Len(history) - 4, Len(history)))
             olderSum  == SumUsage(SubSeq(history, Len(history) - 9, Len(history) - 5))
         IN  IF 10 * recentSum > 11 * olderSum THEN "increasing"
             ELSE IF 10 * recentSum < 9 * olderSum THEN "decreasing"
             ELSE "stable"

C9_TrendAsClaimed ==
    lastOp = "getInsights" => ValueOf(insights).memoryTrend = ExactTrend(memoryHistory)

\* C11 (as claimed): whatever the component names, two components with equal
\* means appear in the hotspots in the order of their first samples in the
\* store, and a tied component that is left out of the hotspots was first
\* recorded after every component of the same mean that is included.
FirstIndex(ms, name) ==
    CHOOSE i \in 1..Len(ms) :
        /\ ms[i].componentName = name
        /\ \A j \in 1..(i - 1) : ms[j].componentName # name

C11_TieOrderAsClaimed ==
    lastOp = "getInsights"
    => LET hs    == ValueOf(insights).componentHotspots
           shown == {hs[i].component : i \in 1..Len(hs)}
       IN  /\ \A i, j \in 1..Len(hs) :
                 (i < j /\ hs[i].averageTime = hs[j].averageTime)
                 => FirstIndex(metrics, hs[i].component)
                      < FirstIndex(metrics, hs[j].component)
           /\ \A n \in NamesIn(metrics) \ shown : \A i \in 1..Len(hs) :
                 TotalOf(metrics, n) * hs[i].averageTime.den
                      = hs[i].averageTime.num * CountOf(metrics, n)
                 => FirstIndex(metrics, hs[i].component) < FirstIndex(metrics, n)

\* C12: recommendations is the sub-list, in this order, of the anomaly-ratio
\* message, the message naming the first hotspot, the memory-leak warning and
\* the general message, each present exactly when its own condition holds:
\* more than a tenth of a non-empty store is slow; the first hotspot's mean
\* exceeds 20; memoryTrend is "increasing"; the mean duration exceeds 10.  It
\* has at most 4 entries and is empty for an empty store whose trend is not
\* increasing.
When(condition, message) == IF condition THEN <<message>> ELSE <<>>

C13_Clear ==
    [][/\ lastOp' = "clear"
          => /\ metrics' = <<>>
             /\ memoryHistory' = <<>>
             /\ memoryBaseline' = Undefined
             /\ GetMetricsResult'.array = <<>>
             /\ Insights(metrics', memoryHistory').totalRenders = 0
       /\ (memoryBaseline = Undefined /\ ticks' = ticks + 1)
          => memoryBaseline' = Some(Last(memoryHistory').usage)
       /\ (lastOp = "clear" /\ lastOp' = "clear")
          => UNCHANGED <<metrics, memoryHistory, memoryBaseline, sessionId, timerOn>>]_vars

\* C13 witness: a tick after a clear() that followed earlier ticks: the history
\* holds that one reading and the baseline is the non-zero reading.
C13_Witness ==
    /\ lastOp = "memoryTick"
    /\ ticks >= 2
    /\ Len(memoryHistory) = 1
    /\ memoryBaseline = Some(3)
    /\ memoryHistory[1].usage = 3

\* C14 (as claimed): the reading of a sampler tick that finds the baseline
\* unset becomes the baseline, whatever its value, and once the baseline is
\* set no step other than clear() changes it.
C14_BaselineSetOnce ==
    [][/\ (memoryBaseline = Undefined /\ ticks' = ticks + 1)
          => memoryBaseline' = Some(Last(memoryHistory').usage)
       /\ (memoryBaseline # Undefined /\ lastOp' # "clear")
          => memoryBaseline' = memoryBaseline]_vars

\* C15: the memory history never holds more than memoryHistoryMax readings;
\* it holds the readings taken last, in the order taken (reading number k has
\* usage k in SpecWindow); a sampler tick appends its reading and drops
\* nothing, or only the oldest reading.
C15_SlidingWindow ==
    /\ [](/\ Len(memoryHistory) <= memoryHistoryMax
          /\ Len(memoryHistory) <= ticks
          /\ \A i \in 1..Len(memoryHistory) :
                memoryHistory[i].usage = ticks - Len(memoryHistory) + i)
    /\ [][ticks' = ticks + 1
          => \/ Front(memoryHistory') = memoryHistory
             \/ /\ Len(memoryHistory) = memoryHistoryMax
                /\ Front(memoryHistory') = Tail(memoryHistory)]_vars

\* C15 witness: a tick on a full history dropped the oldest reading.
C15_Witness ==
    /\ lastOp = "memoryTick"
    /\ Len(memoryHistory) = memoryHistoryMax
    /\ memoryHistory[1].usage = 2
    /\ ticks = memoryHistoryMax + 1

\* C16: the sampler tick warns of a memory spike exactly when its reading is
\* strictly greater than twice the baseline in force at the comparison (the
\* reading itself when the tick has just set the baseline), whether or not
\* the tick before it warned.
C16_SpikeAlert ==
    lastOp = "memoryTick"
    => LET reading  == Last(memoryHistory).usage
           baseline == ValueOf(memoryBaseline)
       IN  /\ memoryBaseline # Undefined
           /\ reading > 2 * baseline => console = {"memory spike"}
           /\ reading <= 2 * baseline => console = {}

\* C16 witness: two consecutive ticks read above twice the baseline and the
\* second one warned as well.
C16_Witness ==
    /\ lastOp = "memoryTick"
    /\ console = {"memory spike"}
    /\ Len(memoryHistory) = 3
    /\ memoryBaseline = Some(1)
    /\ memoryHistory[2].usage = 3
    /\ memoryHistory[3].usage = 3

\* C17: on a host without performance.memory the memory history stays empty,
\* the baseline stays unset, no memory warning is printed, no stored sample
\* carries a memoryUsage, and getInsights() would report the trend "stable"
\* without the memory-leak recommendation.
C17_InertWithoutMemory ==
    ~hasMemory
    => /\ memoryHistory = <<>>
       /\ memoryBaseline = Undefined
       /\ "memory spike" \notin console
       /\ \A i \in 1..Len(metrics) : metrics[i].memoryUsage = Undefined
       /\ LET r == Insights(metrics, memoryHistory)
          IN  /\ r.memoryTrend = "stable"
              /\ \A i \in 1..Len(r.recommendations) :
                    r.recommendations[i] # "Memory usage is increasing - check for memory leaks"

\* C17 witness: a development build without performance.memory has recorded
\* samples and run the cleanup.
C17_Witness ==
    /\ ~hasMemory
    /\ mode = "development"
    /\ Evicted
    /\ metrics # <<>>
    /\ Last(metrics).memoryUsage = Undefined

\* C18: the sampler is started by the constructor exactly when the build mode
\* is "development" and the host has performance.memory; a sampler that was
\* not started takes no reading; each tick appends exactly one reading,
\* stamped with the current time, so that without clear() the history holds
\* one reading per tick up to its capacity and the trend is computed from ten
\* readings once ten ticks have run.
OneReadingPerTick ==
    ticks' = ticks + 1
    => /\ Last(memoryHistory').timestamp = now
       /\ Last(memoryHistory').usage \in HeapSizesT
       /\ \/ Front(memoryHistory') = memoryHistory
          \/ Front(memoryHistory') = Tail(memoryHistory)

C18_SamplerInDevelopment ==
    /\ [](timerOn <=> (hasMemory /\ mode = "development"))
    /\ [](~timerOn => (ticks = 0 /\ memoryHistory = <<>>))
    /\ [](Len(memoryHistory) = Min(ticks, memoryHistoryMax))
    /\ [][OneReadingPerTick]_vars

\* C18 witness: ten ticks have run and getInsights() classified the readings.
C18_Witness ==
    /\ lastOp = "getInsights"
    /\ ticks = trendWindow
    /\ Len(memoryHistory) = trendWindow
    /\ ValueOf(insights).memoryTrend = "increasing"

\* C18 (as claimed): the sampler is started whenever the host has
\* performance.memory, and each tick appends exactly one reading.
C18_AsClaimed ==
    /\ [](hasMemory => timerOn)
    /\ [][OneReadingPerTick]_vars

\* C19: a step of optimizeMemory() leaves in the store the last optimizeKeep
\* entries, in their order, of the stored samples that are slow or were
\* recorded less than recentWindowMs before the call: at most optimizeKeep
\* samples, none of them both fast and recentWindowMs old or older; and it
\* leaves in the memory history its last optimizeHistoryKeep readings.
LastN(s, n) == SubSeq(s, Max(1, Len(s) - n + 1), Len(s))

C19_OptimizeMemory ==
    [][(lastOp' = "optimizeMemory" /\ now' = now)
       => LET kept == SelectSeq(metrics,
                        LAMBDA m : \/ m.renderTime > slowRenderThreshold
                                   \/ now - m.timestamp < 300000)
          IN  /\ metrics' = LastN(kept, optimizeKeep)
              /\ Len(metrics') <= optimizeKeep
              /\ \A i \in 1..Len(metrics') :
                    \/ metrics'[i].renderTime > slowRenderThreshold
                    \/ metrics'[i].timestamp > now - 300000
              /\ memoryHistory' = LastN(memoryHistory, optimizeHistoryKeep)]_vars

\* C19 witness: optimizeMemory() dropped a fast sample exactly recentWindowMs
\* old, kept a slow one of the same age, and cut the oldest reading from a
\* history of optimizeHistoryKeep + 1.
C19_Witness ==
    /\ lastOp = "optimizeMemory"
    /\ now = 300000
    /\ Len(metrics) < optimizeKeep
    /\ \E i \in 1..Len(prev) :
          /\ prev[i].timestamp = 0
          /\ prev[i].renderTime <= slowRenderThreshold
          /\ prev[i].id \notin Ids(metrics)
    /\ \E i \in 1..Len(metrics) :
          /\ metrics[i].timestamp = 0
          /\ metrics[i].renderTime > slowRenderThreshold
    /\ ticks = optimizeHistoryKeep + 1
    /\ Len(memoryHistory) = optimizeHistoryKeep
    /\ memoryHistory[1].usage = 2

\* C20: the document returned by a step of exportMetrics() has as many
\* entries under "metrics" as the store has samples, the collector's
\* sessionId under "sessionId", and under "insights" what getInsights()
\* returns in that state: the same numbers, trend, hotspots and
\* recommendations, and slow renders that agree property by property (a
\* property read from an object is undefined both when the member is absent
\* and when its value is undefined); the step changes no field of the
\* collector.
Read(object, key) == IF key \in DOMAIN object THEN Some(object[key]) ELSE Undefined

SameMetric(parsed, m) ==
    /\ DOMAIN parsed \subseteq MetricKeys
    /\ \A key \in MetricKeys : Read(parsed, key) = Prop(m, key)

C21_InsightsPure ==
    [][lastOp' = "getInsights"
       => LET r == ValueOf(insights')
          IN  /\ UNCHANGED <<metrics, memoryHistory, memoryBaseline, sessionId>>
              /\ lastOp = "getInsights" => insights' = insights
              /\ r.totalRenders = Len(metrics)
              /\ r.slowRenders = SelectSeq(metrics, LAMBDA m : m.renderTime > slowRenderThreshold)
              /\ r.averageRenderTime.num * Len(metrics)
                   = SumRenderTime(metrics) * r.averageRenderTime.den
              /\ Len(memoryHistory) < trendWindow => r.memoryTrend = "stable"]_vars

\* C21 witness: getInsights() after a record and a tick that followed a clear().
C21_Witness ==
    /\ lastOp = "getInsights"
    /\ ValueOf(insights).totalRenders = 1
    /\ ValueOf(insights).slowRenders # <<>>
    /\ Len(memoryHistory) = 1
    /\ ticks >= 2

\* C22: no step changes sessionId, and every sample in the store carries the
\* collector's sessionId.
C22_SessionIdentity ==
    /\ [](\A i \in 1..Len(metrics) : metrics[i].sessionId = sessionId)
    /\ [][sessionId' = sessionId]_vars

\* C22 witness: a sample recorded after a clear() and an export carries the
\* session id the constructor made.
C22_Witness ==
    /\ lastOp = "logRender"
    /\ exported # Undefined
    /\ Len(metrics) = 1
    /\ metrics[1].id >= 2
    /\ metrics[1].sessionId = sessionId
    /\ sessionId \in SessionIds

\* C23 (as claimed): once the owner has let go of the collector no sampler
\* tick is delivered: the tick count, the memory history and the baseline do
\* not change any more.
C23_CleanStop ==
    [][disposed => /\ ticks' = ticks
                   /\ memoryHistory' = memoryHistory
                   /\ memoryBaseline' = memoryBaseline]_vars

\* C24 (as claimed): when a logRender runs the cleanup on a store of
\* maxMetrics distinct samples that are all slow and the new sample is slow
\* too, the store afterwards holds maxMetrics distinct samples: all of them
\* but the oldest.
C24_PathologicalEviction ==
    (/\ Evicted
     /\ Len(prev) = maxMetrics
     /\ Cardinality(Ids(prev)) = maxMetrics
     /\ SlowCount(prev) = maxMetrics
     /\ Last(metrics).isSlowRender)
    => /\ Len(metrics) = maxMetrics
       /\ Cardinality(Ids(metrics)) = maxMetrics
       /\ Ids(metrics) = (Ids(prev) \ {prev[1].id}) \cup {nextId - 1}

\* C25 (as claimed): after a logRender that ran the cleanup the store has as
\* many entries as there were distinct samples that are slow or among the
\* keepRecent most recent, but at most maxMetrics; when no sample was slow it
\* is exactly the keepRecent most recent samples.
C25_ShrinkToRecent ==
    Evicted
    => LET pushed  == Append(prev, Last(metrics))
           keepers == {pushed[i].id : i \in {k \in 1..Len(pushed) :
                           pushed[k].isSlowRender \/ k > Len(pushed) - keepRecent}}
       IN  /\ Len(metrics) = Min(maxMetrics, Cardinality(keepers))
           /\ SlowCount(pushed) = 0 => metrics = Slice(pushed, -keepRecent)

\* C26: a stored sample has a callStack exactly when its duration exceeds the
\* threshold: every slow sample carries the text getCallStack() returned
\* (possibly the empty string) and no other sample has a callStack.
C26_StackIffSlow ==
    \A i \in 1..Len(metrics) :
        /\ metrics[i].renderTime > slowRenderThreshold
              => (metrics[i].callStack # Undefined /\ metrics[i].callStack \subseteq StacksE)
        /\ metrics[i].renderTime <= slowRenderThreshold => metrics[i].callStack = Undefined

\* C26 witness: after a cleanup the store holds a slow sample with a stack, a
\* slow sample whose stack is the empty string and a fast sample without one.
C26_Witness ==
    /\ Evicted
    /\ \E i, j, k \in 1..Len(metrics) :
          /\ metrics[i].callStack = Some("at A")
          /\ metrics[j].callStack = Some("") /\ metrics[j].isSlowRender
          /\ metrics[k].callStack = Undefined /\ metrics[k].renderTime = 16

\* C27 (as claimed): when getInsights() runs on a non-empty store, the first
\* hotspot's mean is at least the overall mean; so a mean above 20 brings both
\* the message naming the first hotspot and the general message, and the
\* message naming the first hotspot comes only with a non-empty slowRenders.
Contains(list, message) == \E i \in 1..Len(list) : list[i] = message

C27_InsightConsistency ==
    (lastOp = "getInsights" /\ metrics # <<>>)
    => LET r  == ValueOf(insights)
           hs == r.componentHotspots
       IN  /\ hs # <<>>
           /\ hs[1].averageTime.num * r.averageRenderTime.den
                >= r.averageRenderTime.num * hs[1].averageTime.den
           /\ r.averageRenderTime.num > 20 * r.averageRenderTime.den
                => /\ Contains(r.recommendations,
                               "Focus optimization on " \o hs[1].component \o " component")
                   /\ Contains(r.recommendations,
                               "Overall render performance could be improved")
           /\ Contains(r.recommendations,
                       "Focus optimization on " \o hs[1].component \o " component")
                => r.slowRenders # <<>>

\* C28: neither optimizeMemory()'s trimming of memoryHistory nor the sampler's
\* truncation changes the memoryTrend getInsights() reports: after
\* optimizeMemory() the trend of the history is the trend before it, after a
\* tick it is the trend of the untruncated history with the new reading, and
\* getInsights() reports the trend of the history as it stands.
C28_CompactionKeepsTrend ==
    [][/\ lastOp' = "optimizeMemory"
          => MemoryTrend(memoryHistory') = MemoryTrend(memoryHistory)
       /\ lastOp' = "memoryTick"
          => MemoryTrend(memoryHistory')
               = MemoryTrend(Append(memoryHistory, Last(memoryHistory')))
       /\ lastOp' = "getInsights"
          => ValueOf(insights').memoryTrend = MemoryTrend(memoryHistory)]_vars

C28_Witness ==
    /\ lastOp = "getInsights"
    /\ ticks > memoryHistoryMax
    /\ Len(memoryHistory) = optimizeHistoryKeep
    /\ ValueOf(insights).memoryTrend = "increasing"

\* C29: a sampler tick leaves the store unchanged; logRender leaves
\* memoryHistory and memoryBaseline unchanged; optimizeMemory leaves
\* memoryBaseline unchanged; so a tick that follows a logRender finds and leaves
\* the store that logRender made of the store before it, and a logRender that
\* follows a tick leaves the history and baseline the tick made: the two
\* orders end with the same store, history and baseline.
IsRecord(op) == op \in {"logRender", "logRender/cleanup"}

C29_Independence ==
    [][/\ lastOp' = "memoryTick" => metrics' = metrics
       /\ IsRecord(lastOp')
          => /\ memoryHistory' = memoryHistory
             /\ memoryBaseline' = memoryBaseline
       /\ lastOp' = "optimizeMemory" => memoryBaseline' = memoryBaseline
       /\ (IsRecord(lastOp) /\ lastOp' = "memoryTick")
          => metrics' = AfterPush(Append(prev, Last(metrics)))]_vars

C29_Witness ==
    /\ lastOp = "memoryTick"
    /\ nextId > maxMetrics + 1
    /\ Len(metrics) = maxMetrics
    /\ memoryHistory # <<>>
    /\ memoryBaseline # Undefined

\* C30 (as claimed): whenever an item is registered, currentIndex is at least 0
\* and less than the number of registered items; and a key event that finds no
\* registered item changes neither currentIndex nor the items nor the focus.
C30_IndexValid ==
    /\ [](itemsRef # <<>> => (0 <= currentIndex /\ currentIndex < Len(itemsRef)))
    /\ [][(lastOp' = "handleKeyDown" /\ itemsRef = <<>>)
          => UNCHANGED <<currentIndex, itemsRef, focused>>]_vars

====
